---- MODULE Spec2Model ----
(***************************************************************************)
(* Wave Function Collapse solver (wfc/wfc_solver.py): the wave, the        *)
(* adjacency matrices, propagate, the lexical heuristics and the           *)
(* recursive driver run, as a state machine.                               *)
(*                                                                         *)
(* A wave is the boolean tensor wave[p, x, y] of shape (N, W, H).  An      *)
(* adjacency model maps a direction <<dx, dy>> to the matrix m[p, q].      *)
(* Callables (hooks) are named by strings; "None" is Python's None.        *)
(***************************************************************************)
EXTENDS Integers, Sequences, FiniteSets, TLC

VARIABLES
  shape,        \* wave.shape = <<N, W, H>>
  adj,          \* adjacency matrices, keyed by direction
  periodic,     \* the periodic argument
  backtracking, \* the backtracking argument
  hooks,        \* the callables the caller passed to run
  feasMin,      \* threshold used by the caller's feasibility callable
  wave,         \* the array the active call works on
  stack,        \* run frames, outermost first; the last one is active
  pc,           \* position of the active call
  site,         \* source line of the propagate call being executed
  last_count,   \* propagate's local last_count
  log,          \* event_log of the caller's hooks
  outcome,      \* "running", "grid", or the exception that left run/propagate
  result,       \* the returned grid
  input,        \* the wave as passed to the first direct propagate call
  first,        \* the wave as left by the first direct propagate call
  calls         \* number of direct propagate calls that returned

vars == <<shape, adj, periodic, backtracking, hooks, feasMin, wave, stack, pc, site,
          last_count, log, outcome, result, input, first, calls>>

config == <<shape, adj, periodic, backtracking, hooks, feasMin>>

----------------------------------------------------------------------------
(* Bounds of the explored inputs *)

MaxN == 2
MaxCells == 4
MaxCleared == 1
MaxTW == 3
MaxTH == 4
MaxEnum == 8
MaxOff == 4

(* The grid of the repository's tests: makeWave(3,3,4), numpy.ones((3,3,4)) *)
TestN == 3
TestW == 3
TestH == 4
TestFeasMin == 20

----------------------------------------------------------------------------
(* Shapes and indices *)

Pats(s) == 0 .. (s[1] - 1)
Xs(s) == 0 .. (s[2] - 1)
Ys(s) == 0 .. (s[3] - 1)
Cells(s) == Xs(s) \X Ys(s)

None == "None"

(* wave.sum(): the number of true entries *)
Sum(wv) == Cardinality({e \in DOMAIN wv : wv[e]})

(* numpy.count_nonzero(wave, axis=0)[x, y] *)
CountAt(wv, s, x, y) == Cardinality({p \in Pats(s) : wv[p, x, y]})

(* numpy.ones((n, w, h), dtype=bool), optionally with the last row pinned; *)
(* ground is {} for None and {g} for the pattern g                         *)
makeWave(n, w, h, ground) ==
  [p \in 0 .. (n - 1), x \in 0 .. (w - 1), y \in 0 .. (h - 1) |->
     IF ground # {} /\ y = h - 1 THEN p \in ground ELSE TRUE]

(* makeAdj: m[i, j] = 1 for every j listed at adjLists[d][i] *)
makeAdj(adjLists) ==
  [d \in DOMAIN adjLists |->
     LET num_patterns == Len(adjLists[d])
     IN  [i \in 0 .. (num_patterns - 1), j \in 0 .. (num_patterns - 1) |->
            j \in adjLists[d][i + 1]]]

----------------------------------------------------------------------------
(* propagate *)

(* numpy.pad(wave, ((0,0),(1,1),(1,1)), ...): indices 0..W+1 by 0..H+1;    *)
(* mode='wrap' repeats the opposite edge, mode='constant' pads with True   *)
PadConstantFalse(wv, s, per) ==
  [p \in Pats(s), a \in 0 .. (s[2] + 1), b \in 0 .. (s[3] + 1) |->
     IF per
       THEN wv[p, (a - 1) % s[2], (b - 1) % s[3]]
       ELSE IF a \in 1 .. s[2] /\ b \in 1 .. s[3]
              THEN wv[p, a - 1, b - 1]
              ELSE FALSE]

Pad(wv, s, per) ==
  [p \in Pats(s), a \in 0 .. (s[2] + 1), b \in 0 .. (s[3] + 1) |->
     IF per
       THEN wv[p, (a - 1) % s[2], (b - 1) % s[3]]
       ELSE IF a \in 1 .. s[2] /\ b \in 1 .. s[3]
              THEN wv[p, a - 1, b - 1]
              ELSE TRUE]

(* padded[:, 1+dx : 1+W+dx, 1+dy : 1+H+dy] *)
Shifted(padded, s, d) ==
  [p \in Pats(s), x \in Xs(s), y \in Ys(s) |-> padded[p, 1 + d[1] + x, 1 + d[2] + y]]

(* numpy.einsum('pwh,pq->qwh', shifted, adj[d]) > 0 *)
SupportTransposed(shifted, m, s) ==
  [q \in Pats(s), x \in Xs(s), y \in Ys(s) |->
     \E p \in Pats(s) : shifted[p, x, y] /\ m[q, p]]

Support(shifted, m, s) ==
  [q \in Pats(s), x \in Xs(s), y \in Ys(s) |->
     \E p \in Pats(s) : shifted[p, x, y] /\ m[p, q]]

(* one pass of the while loop up to the test: every support is computed    *)
(* from the padded copy, then the wave is multiplied by each of them       *)
SweepOverwrite(wv, a, s, per) ==
  LET padded == Pad(wv, s, per)
      supports == [d \in DOMAIN a |-> Support(Shifted(padded, s, d), a[d], s)]
  IN  [e \in DOMAIN wv |-> \A d \in DOMAIN a : supports[d][e]]

SweepWave(wv, a, s, per) ==
  LET padded == Pad(wv, s, per)
      supports == [d \in DOMAIN a |-> Support(Shifted(padded, s, d), a[d], s)]
  IN  [e \in DOMAIN wv |-> wv[e] /\ \A d \in DOMAIN a : supports[d][e]]

(* the loop's exit test: wave.sum() == last_count *)
BreakAlways(wv, last) == TRUE

Break(wv, last) == Sum(wv) = last

(* the test after the loop: wave.sum() == 0 raises Contradiction *)
Raises(wv) == Sum(wv) = 0

----------------------------------------------------------------------------
(* Heuristics *)

(* numpy.inf in cell_weights: larger than every count *)
Inf(s) == s[1] + 1

(* lexicalLocationHeuristic: argmin over the row-major flattening of       *)
(* cell_weights (first minimum wins), then unravel_index                   *)
LocationLast(wv, s) ==
  LET cell_weights == [c \in Cells(s) |->
                         IF CountAt(wv, s, c[1], c[2]) > 1
                           THEN CountAt(wv, s, c[1], c[2]) ELSE Inf(s)]
      flat == [k \in 0 .. (s[2] * s[3] - 1) |-> cell_weights[<<k \div s[3], k % s[3]>>]]
      argmin == CHOOSE k \in DOMAIN flat :
                  /\ \A l \in DOMAIN flat : flat[k] <= flat[l]
                  /\ \A l \in DOMAIN flat : l > k => flat[l] > flat[k]
  IN  <<argmin \div s[3], argmin % s[3]>>

lexicalLocationHeuristic(wv, s) ==
  LET cell_weights == [c \in Cells(s) |->
                         IF CountAt(wv, s, c[1], c[2]) > 1
                           THEN CountAt(wv, s, c[1], c[2]) ELSE Inf(s)]
      flat == [k \in 0 .. (s[2] * s[3] - 1) |-> cell_weights[<<k \div s[3], k % s[3]>>]]
      argmin == CHOOSE k \in DOMAIN flat :
                  /\ \A l \in DOMAIN flat : flat[k] <= flat[l]
                  /\ \A l \in DOMAIN flat : l < k => flat[l] > flat[k]
  IN  <<argmin \div s[3], argmin % s[3]>>

(* lexicalPatternHeuristic: numpy.nonzero(weights)[0][0]; indexing the     *)
(* empty array raises IndexError, written -1 here                          *)
PatternLast(weights) ==
  LET nonzero == {p \in DOMAIN weights : weights[p]}
  IN  IF nonzero = {} THEN -1
      ELSE CHOOSE p \in nonzero : \A r \in nonzero : p >= r

lexicalPatternHeuristic(weights) ==
  LET nonzero == {p \in DOMAIN weights : weights[p]}
  IN  IF nonzero = {} THEN -1
      ELSE CHOOSE p \in nonzero : \A r \in nonzero : p <= r

(* numpy.argmax(wave, 0): the first index of the maximum along the pattern *)
(* axis, which is 0 where no pattern is true                               *)
Argmax(wv, s) ==
  [c \in Cells(s) |->
     LET on == {p \in Pats(s) : wv[p, c[1], c[2]]}
     IN  IF on = {} THEN 0 ELSE CHOOSE p \in on : \A r \in on : p <= r]

----------------------------------------------------------------------------
(* The caller's callables *)

(* the feasibility callables: "explode" is the one of test_run, which      *)
(* returns None or raises the undefined name Infeasible; "atLeast" returns *)
(* wave.sum() >= feasMin                                                   *)
CallFeasible(hook, wv, min) ==
  CASE hook = "explode" -> IF Sum(wv) < min THEN "NameError" ELSE None
    [] hook = "atLeast" -> IF Sum(wv) >= min THEN "True" ELSE "False"

(* calling a hook in the onChoice position with (pattern, i, j): the       *)
(* logger of test_run appends to event_log; the feasibility callables take *)
(* one argument, so the call raises TypeError                              *)
ChoiceRaises(hook) == hook \in {"explode", "atLeast"}

CallOnChoice(hook, lg, pattern, i, j) ==
  IF hook = "onChoice" THEN Append(lg, <<"choice", pattern, i, j>>) ELSE lg

(* the arguments of the recursive call after a commit (line 103) *)
ForwardArgs(f) ==
  [onBacktrack |-> f.onBacktrack, onChoice |-> None, checkFeasible |-> None]

(* the arguments of the recursive call after a backtrack (line 112):       *)
(* checkFeasible is passed in the position of onChoice                     *)
RetryArgsKeepHooks(f) ==
  [onBacktrack |-> f.onBacktrack, onChoice |-> f.onChoice,
   checkFeasible |-> f.checkFeasible]

RetryArgs(f) ==
  [onBacktrack |-> f.onBacktrack, onChoice |-> f.checkFeasible,
   checkFeasible |-> None]

----------------------------------------------------------------------------
(* Frames of run *)

(* the locals of a call of run on the array wv; entry records the array    *)
(* as it was when the call was made                                        *)
NewFrame(args, wv) ==
  [original |-> <<>>, pattern |-> -1, i |-> -1, j |-> -1, at |-> None,
   onBacktrack |-> args.onBacktrack, onChoice |-> args.onChoice,
   checkFeasible |-> args.checkFeasible, entry |-> wv]

Top == stack[Len(stack)]
Callers == SubSeq(stack, 1, Len(stack) - 1)
SetTop(f) == [stack EXCEPT ![Len(stack)] = f]

(* the innermost frame suspended inside its try block (at line 103), or 0  *)
Catcher(frames) ==
  LET trying == {k \in 1 .. Len(frames) : frames[k].at = "try"}
  IN  IF trying = {} THEN 0 ELSE CHOOSE k \in trying : \A l \in trying : l <= k

(* an exception other than Contradiction is caught nowhere *)
Escape(exc) ==
  /\ outcome' = exc
  /\ pc' = "done"
  /\ stack' = <<>>

(* Contradiction leaves the frames above `frames`; the innermost try block *)
(* among them handles it                                                   *)
Unwind(frames) ==
  LET c == Catcher(frames)
  IN  IF c = 0
        THEN Escape("Contradiction")
        ELSE /\ stack' = SubSeq(frames, 1, c)
             /\ pc' = "except"
             /\ outcome' = outcome

----------------------------------------------------------------------------
(* Actions of propagate *)

(* line 58 on a direct call of propagate (as in test_propagate) *)
PCall ==
  /\ pc = "call"
  /\ site' = 160
  /\ last_count' = Sum(wave)
  /\ pc' = "sweep"
  /\ input' = IF calls = 0 THEN wave ELSE input
  /\ UNCHANGED <<config, wave, stack, log, outcome, result, first, calls>>

(* lines 61-78: one iteration of the loop *)
Sweep ==
  /\ pc = "sweep"
  /\ wave' = SweepWave(wave, adj, shape, periodic)
  /\ IF Break(wave', last_count)
       THEN pc' = "fix" /\ last_count' = last_count
       ELSE pc' = "sweep" /\ last_count' = Sum(wave')
  /\ UNCHANGED <<config, stack, site, log, outcome, result, input, first, calls>>

(* lines 80-81 and the return to the call site *)
PropagateEnd ==
  /\ pc = "fix"
  /\ IF Raises(wave)
       THEN CASE site = 160 -> Escape("Contradiction") /\ calls' = calls /\ first' = first
              [] site = 94 -> Unwind(Callers) /\ calls' = calls /\ first' = first
              [] site = 101 -> /\ pc' = "except"
                               /\ UNCHANGED <<stack, outcome, calls, first>>
       ELSE CASE site = 160 -> /\ calls' = calls + 1
                               /\ first' = IF calls = 0 THEN wave ELSE first
                               /\ pc' = IF calls' < 2 THEN "call" ELSE "done"
                               /\ outcome' = IF calls' < 2 THEN outcome ELSE "returned"
                               /\ stack' = stack
              [] site = 94 -> pc' = "observe" /\ UNCHANGED <<stack, outcome, calls, first>>
              [] site = 101 -> pc' = "test" /\ UNCHANGED <<stack, outcome, calls, first>>
  /\ UNCHANGED <<config, wave, site, last_count, log, result, input>>

----------------------------------------------------------------------------
(* Actions of run *)

(* lines 90-92 *)
CheckFeasible ==
  /\ pc = "enter"
  /\ IF Top.checkFeasible = None
       THEN pc' = "copy" /\ UNCHANGED <<stack, outcome>>
       ELSE LET r == CallFeasible(Top.checkFeasible, wave, feasMin)
            IN  CASE r = "NameError" -> Escape("NameError")
                  [] r \in {None, "False"} -> Unwind(Callers)
                  [] r = "True" -> pc' = "copy" /\ UNCHANGED <<stack, outcome>>
  /\ UNCHANGED <<config, wave, site, last_count, log, result, input, first, calls>>

(* line 93, and line 94 up to propagate's line 58 *)
Snapshot ==
  /\ pc = "copy"
  /\ stack' = SetTop([Top EXCEPT !.original = wave])
  /\ site' = 94
  /\ last_count' = Sum(wave)
  /\ pc' = "sweep"
  /\ UNCHANGED <<config, wave, log, outcome, result, input, first, calls>>

(* lines 96-98: observe, then the onChoice hook *)
Observe ==
  /\ pc = "observe"
  /\ LET loc == lexicalLocationHeuristic(wave, shape)
         pattern == lexicalPatternHeuristic([p \in Pats(shape) |-> wave[p, loc[1], loc[2]]])
         logged == IF Top.onChoice = None THEN log
                   ELSE CallOnChoice(Top.onChoice, log, pattern, loc[1], loc[2])
     IN  CASE pattern = -1 -> Escape("IndexError") /\ log' = log
           [] pattern # -1 /\ Top.onChoice # None /\ ChoiceRaises(Top.onChoice) ->
                Escape("TypeError") /\ log' = log
           [] OTHER ->
                /\ stack' = SetTop([Top EXCEPT !.pattern = pattern,
                                               !.i = loc[1], !.j = loc[2]])
                /\ log' = logged
                /\ pc' = "commit"
                /\ outcome' = outcome
  /\ UNCHANGED <<config, wave, site, last_count, result, input, first, calls>>

(* lines 99-100, and line 101 up to propagate's line 58 *)
Commit ==
  /\ pc = "commit"
  /\ wave' = [e \in DOMAIN wave |->
                IF e[2] = Top.i /\ e[3] = Top.j THEN e[1] = Top.pattern ELSE wave[e]]
  /\ site' = 101
  /\ last_count' = Sum(wave')
  /\ pc' = "sweep"
  /\ UNCHANGED <<config, stack, log, outcome, result, input, first, calls>>

(* lines 102-105: recurse on the same array, or return the grid *)
ReturnOrRecurse ==
  /\ pc = "test"
  /\ IF Sum(wave) > shape[2] * shape[3]
       THEN /\ stack' = Append(SetTop([Top EXCEPT !.at = "try"]),
                               NewFrame(ForwardArgs(Top), wave))
            /\ pc' = "enter"
            /\ UNCHANGED <<outcome, result>>
       ELSE /\ result' = Argmax(wave, shape)
            /\ outcome' = "grid"
            /\ pc' = "done"
            /\ stack' = <<>>
  /\ UNCHANGED <<config, wave, site, last_count, log, input, first, calls>>

(* line 107: the handler recovers only if backtracking is set *)
BacktracksAlways(bt) == TRUE

Backtracks(bt) == bt

(* line 110: wave = original rebinds the name to the snapshot *)
RestoredCurrent(original, current) == current

Restored(original, current) == original

(* line 111: wave[pattern, i, j] = False *)
ForbidNothing(wv, pattern, i, j) == wv

ForbidCell(wv, pattern, i, j) ==
  [e \in DOMAIN wv |-> IF e[2] = i /\ e[3] = j THEN FALSE ELSE wv[e]]

Forbid(wv, pattern, i, j) == [wv EXCEPT ![pattern, i, j] = FALSE]

(* lines 106-114: the handler of Contradiction *)
Except ==
  /\ pc = "except"
  /\ IF Backtracks(backtracking)
       THEN /\ log' = IF Top.onBacktrack = None THEN log ELSE Append(log, <<"backtrack">>)
            /\ wave' = Forbid(Restored(Top.original, wave), Top.pattern, Top.i, Top.j)
            /\ stack' = Append(SetTop([Top EXCEPT !.at = "handler"]),
                               NewFrame(RetryArgs(Top), wave'))
            /\ pc' = "enter"
            /\ outcome' = outcome
       ELSE /\ Unwind(Callers)
            /\ UNCHANGED <<wave, log>>
  /\ UNCHANGED <<config, site, last_count, result, input, first, calls>>

----------------------------------------------------------------------------
(* Inputs *)

Cardinals == {<<1, 0>>, <<-1, 0>>, <<0, 1>>, <<0, -1>>}

DirSets == {{}, {<<1, 0>>}, {<<0, 1>>}, {<<1, 0>>, <<-1, 0>>},
            {<<1, 0>>, <<0, 1>>}, Cardinals}

(* adjacency lists over n patterns: "swap" is the [[1],[0],[2]] of the     *)
(* tests (0 next to 1, every other pattern next to itself)                 *)
Kinds == {"swap", "same", "less", "any"}

KindList(kind, n) ==
  [k \in 1 .. n |->
     LET i == k - 1
     IN  CASE kind = "swap" -> IF i <= 1 THEN {1 - i} \cap (0 .. (n - 1)) ELSE {i}
           [] kind = "same" -> {i}
           [] kind = "less" -> {j \in 0 .. (n - 1) : i < j}
           [] kind = "any" -> 0 .. (n - 1)]

(* the adjacency models explored: one list per direction; the four         *)
(* cardinals share one list, as in the tests; an empty dict is passed as is *)
AdjModels(n) ==
  UNION {{makeAdj([d \in ds |-> KindList(k[d], n)]) :
            k \in {kk \in [ds -> Kinds] :
                     Cardinality(ds) > 2 => \A d, e \in ds : kk[d] = kk[e]}} :
         ds \in DirSets}

TestAdj == makeAdj([d \in Cardinals |-> KindList("swap", TestN)])

(* the callables test_run passes, and a boolean feasibility callable *)
NoHooks == [onBacktrack |-> None, onChoice |-> None, checkFeasible |-> None]
Loggers == [onBacktrack |-> "onBacktrack", onChoice |-> "onChoice", checkFeasible |-> None]
Explode == [onBacktrack |-> None, onChoice |-> None, checkFeasible |-> "explode"]
AtLeast == [onBacktrack |-> None, onChoice |-> None, checkFeasible |-> "atLeast"]
AtLeastLogged ==
  [onBacktrack |-> "onBacktrack", onChoice |-> "onChoice", checkFeasible |-> "atLeast"]

(* the grid shapes of the general inputs *)
Shapes ==
  {s \in (1 .. MaxN) \X (1 .. MaxCells) \X (1 .. MaxCells) : s[2] * s[3] <= MaxCells}

(* waves with at most k entries of wv cleared *)
ClearedWaves(wv, k) ==
  {[e \in DOMAIN wv |-> wv[e] /\ e \notin off] :
     off \in {o \in SUBSET (DOMAIN wv) : Cardinality(o) <= k}}

(* wave[:, x, y] = False; wave[p, x, y] = True, as test_propagate does *)
Pinned(wv, p, x, y) ==
  [e \in DOMAIN wv |-> IF e[2] = x /\ e[3] = y THEN e[1] = p ELSE wv[e]]

InitCommon ==
  /\ log = <<>>
  /\ outcome = "running"
  /\ result = <<>>
  /\ last_count = 0
  /\ site = 0
  /\ calls = 0
  /\ input = wave
  /\ first = wave

(* run called on a fresh wave: the small general inputs, and the grids of  *)
(* test_run with the hooks of test_run                                     *)
InitRun ==
  /\ \/ /\ shape \in Shapes
        /\ adj \in AdjModels(shape[1])
        /\ \E g \in {{}, {shape[1] - 1}} : wave = makeWave(shape[1], shape[2], shape[3], g)
        /\ \/ hooks = Loggers /\ feasMin = 0
           \/ hooks = AtLeastLogged /\ feasMin = shape[1] * shape[2] * shape[3]
     \/ /\ \E w \in 1 .. MaxTW, h \in 1 .. MaxTH : shape = <<TestN, w, h>>
        /\ wave = makeWave(shape[1], shape[2], shape[3], {})
        /\ adj = TestAdj
        /\ feasMin = TestFeasMin
        /\ hooks \in {NoHooks, Loggers, Explode, AtLeast, AtLeastLogged}
  /\ periodic \in BOOLEAN
  /\ backtracking \in BOOLEAN
  /\ stack = <<NewFrame(hooks, wave)>>
  /\ pc = "enter"
  /\ InitCommon

Init == InitRun

Next ==
  \/ CheckFeasible
  \/ Snapshot
  \/ Sweep
  \/ PropagateEnd
  \/ Observe
  \/ Commit
  \/ ReturnOrRecurse
  \/ Except

Spec == Init /\ [][Next]_vars

(* run is sequential code: whenever a step is possible, one is taken *)
SpecLive == Spec /\ WF_vars(Next)

(* propagate called directly, twice in a row, on partly cleared waves and  *)
(* on the pinned wave of test_propagate                                    *)
InitPropagate ==
  /\ \/ /\ shape \in Shapes
        /\ adj \in AdjModels(shape[1])
        /\ wave \in ClearedWaves(makeWave(shape[1], shape[2], shape[3], {}), MaxCleared)
     \/ /\ \E w \in 1 .. MaxTW, h \in 1 .. MaxTH : shape = <<TestN, w, h>>
        /\ wave = Pinned(makeWave(shape[1], shape[2], shape[3], {}), 0, 0, 0)
        /\ adj = TestAdj
  /\ periodic \in BOOLEAN
  /\ backtracking = FALSE
  /\ hooks = NoHooks
  /\ feasMin = 0
  /\ stack = <<>>
  /\ pc = "call"
  /\ InitCommon

NextPropagate ==
  \/ PCall
  \/ Sweep
  \/ PropagateEnd

SpecPropagate == InitPropagate /\ [][NextPropagate]_vars

(* lexicalLocationHeuristic called directly on waves of TestN patterns     *)
(* with at most MaxOff entries cleared                                     *)
InitLocation ==
  /\ \E w \in 1 .. MaxCells, h \in 1 .. MaxCells :
       w * h <= MaxCells /\ shape = <<TestN, w, h>>
  /\ wave \in ClearedWaves(makeWave(shape[1], shape[2], shape[3], {}), MaxOff)
  /\ adj = TestAdj
  /\ periodic = FALSE
  /\ backtracking = FALSE
  /\ hooks = NoHooks
  /\ feasMin = 0
  /\ stack = <<NewFrame(NoHooks, wave)>>
  /\ pc = "locate"
  /\ InitCommon

(* i, j = locationHeuristic(wave) *)
Locate ==
  /\ pc = "locate"
  /\ LET loc == lexicalLocationHeuristic(wave, shape)
     IN  stack' = SetTop([Top EXCEPT !.i = loc[1], !.j = loc[2]])
  /\ pc' = "located"
  /\ UNCHANGED <<config, wave, site, last_count, log, outcome, result, input, first, calls>>

NextLocation == Locate

SpecLocation == InitLocation /\ [][NextLocation]_vars

----------------------------------------------------------------------------
(* Vocabulary of the properties *)

Neighbour(c, d) == <<c[1] + d[1], c[2] + d[2]>>
InGrid(c) == c[1] \in Xs(shape) /\ c[2] \in Ys(shape)
Wrapped(c) == <<c[1] % shape[2], c[2] % shape[3]>>

(* the patterns still possible in wv at the neighbour of cell c along d;   *)
(* outside a non-periodic grid every pattern counts as possible            *)
PossibleAt(wv, c, d) ==
  LET n == Neighbour(c, d)
  IN  IF periodic THEN {p \in Pats(shape) : wv[p, Wrapped(n)[1], Wrapped(n)[2]]}
      ELSE IF InGrid(n) THEN {p \in Pats(shape) : wv[p, n[1], n[2]]}
      ELSE Pats(shape)

(* every possible pattern has, along every direction, a permitted possible *)
(* pattern at the shifted cell                                             *)
ArcConsistent(wv) ==
  \A e \in DOMAIN wv :
    wv[e] => \A d \in DOMAIN adj :
               \E p \in PossibleAt(wv, <<e[2], e[3]>>, d) : adj[d][p, e[1]]

SubWave(wv, of) == \A e \in DOMAIN of : wv[e] => of[e]

SubWavesOf(of) ==
  {[e \in DOMAIN of |-> e \in on] : on \in SUBSET {e \in DOMAIN of : of[e]}}

Checkerboard == [p \in Pats(shape), x \in Xs(shape), y \in Ys(shape) |-> p = (x + y) % 2]

IsTestGrid == shape = <<TestN, TestW, TestH>> /\ adj = TestAdj

(* the wave passed in was all true *)
AllTrue == input = makeWave(shape[1], shape[2], shape[3], {})

Returned == calls >= 1 /\ pc \in {"call", "done"} /\ outcome # "Contradiction"

----------------------------------------------------------------------------
(* Properties *)

(* C1: a grid returned by run satisfies M[d][grid[x][y]][grid[x+dx][y+dy]] *)
(* for every direction d and every cell whose neighbour along d is in the  *)
(* grid (wrapping when periodic).                                          *)
C1_ReturnedGridRespectsAdjacency ==
  outcome = "grid" =>
    \A d \in DOMAIN adj, c \in Cells(shape) :
      LET n == Neighbour(c, d)
      IN  (periodic \/ InGrid(n)) =>
            adj[d][result[c], result[IF periodic THEN Wrapped(n) ELSE n]]

(* C2: when run returns a grid, every cell of the final wave has exactly   *)
(* one possible pattern and the grid entry of the cell is that pattern.    *)
C2_ReturnedGridIsResolved ==
  outcome = "grid" =>
    \A c \in Cells(shape) :
      /\ CountAt(wave, shape, c[1], c[2]) = 1
      /\ wave[result[c], c[1], c[2]]

(* C3: propagate returns normally only if every cell keeps at least one    *)
(* possible pattern; an empty cell at the fixpoint means Contradiction.    *)
C3_NormalReturnHasNoEmptyCell ==
  Returned => \A c \in Cells(shape) : CountAt(wave, shape, c[1], c[2]) >= 1

(* C4: when the loop of propagate stops, the wave is the greatest          *)
(* arc-consistent sub-wave of the input: it is a sub-wave of the input, it *)
(* is arc-consistent, and it contains every arc-consistent sub-wave of the *)
(* input (enumerated for inputs of at most MaxEnum true entries); on the   *)
(* pinned 3x4 grid of test_propagate it is the checkerboard.               *)
C4_StopsAtGreatestArcConsistentSubWave ==
  pc = "fix" =>
    /\ SubWave(wave, input)
    /\ ArcConsistent(wave)
    /\ Sum(input) <= MaxEnum =>
         \A t \in SubWavesOf(input) : ArcConsistent(t) => SubWave(t, wave)
    /\ (IsTestGrid /\ ~periodic /\ input = Pinned(makeWave(TestN, TestW, TestH, {}), 0, 0, 0)) =>
         wave = Checkerboard

C4_Witness ==
  /\ pc = "fix"
  /\ IsTestGrid /\ ~periodic
  /\ input = Pinned(makeWave(TestN, TestW, TestH, {}), 0, 0, 0)
  /\ wave = Checkerboard
  /\ Sum(wave) < Sum(input)

(* C5, as claimed: in a non-periodic grid a sweep removes a pattern q from *)
(* a cell only on account of a direction whose neighbour lies in the grid  *)
(* and has no possible pattern p with M[d][p][q].                          *)
C5_OutOfGridNeverRemoves ==
  [][~periodic =>
       \A e \in DOMAIN wave :
         (wave[e] /\ ~wave'[e]) =>
           \E d \in DOMAIN adj :
             LET n == Neighbour(<<e[2], e[3]>>, d)
             IN  /\ InGrid(n)
                 /\ ~\E p \in Pats(shape) : wave[p, n[1], n[2]] /\ adj[d][p, e[1]]]_vars

(* C5, amended: a direction whose neighbour lies outside the grid accounts *)
(* for a removal of q only when no pattern p at all has M[d][p][q].        *)
C5_OutOfGridRemovesOnlyUnsupportable ==
  [][~periodic =>
       \A e \in DOMAIN wave :
         (wave[e] /\ ~wave'[e]) =>
           \E d \in DOMAIN adj :
             LET n == Neighbour(<<e[2], e[3]>>, d)
             IN  IF InGrid(n)
                   THEN ~\E p \in Pats(shape) : wave[p, n[1], n[2]] /\ adj[d][p, e[1]]
                   ELSE ~\E p \in Pats(shape) : adj[d][p, e[1]]]_vars

(* a sweep has run on a non-periodic grid and a border cell keeps a        *)
(* pattern along a direction that leaves the grid, while another entry     *)
(* was removed                                                             *)
C5_Witness ==
  /\ ~periodic
  /\ pc = "fix"
  /\ wave # input
  /\ \E e \in DOMAIN wave, d \in DOMAIN adj :
       /\ wave[e]
       /\ ~InGrid(Neighbour(<<e[2], e[3]>>, d))

(* C6: a second call of propagate on a wave on which propagate has just    *)
(* returned normally leaves every entry unchanged.                         *)
C6_PropagateIdempotent == calls >= 1 => wave = first

C6_Witness == calls = 2 /\ pc = "done" /\ wave = first /\ first # input

(* C7: no step of propagate turns a false entry true, and the count of     *)
(* true entries never increases, also in a call that ends in Contradiction *)
C7_PropagateMonotone ==
  [][/\ \A e \in DOMAIN wave : wave'[e] => wave[e]
     /\ Sum(wave') <= Sum(wave)]_vars

C7_Witness ==
  /\ outcome = "Contradiction"
  /\ Sum(input) > 0
  /\ Sum(wave) < Sum(input)

(* C8: on the all-true 3x4 grid of test_run, periodic, with backtracking   *)
(* and the logging hooks, the hook events are exactly on_choice(0,0,0)     *)
(* followed by on_backtrack, and run returns the all-2 grid.               *)
C8_Events == <<<<"choice", 0, 0, 0>>, <<"backtrack">>>>

C8_PeriodicRunBacktracksOnce ==
  (IsTestGrid /\ AllTrue /\ periodic /\ backtracking /\ hooks = Loggers) =>
    /\ Len(log) <= Len(C8_Events)
    /\ log = SubSeq(C8_Events, 1, Len(log))
    /\ pc = "done" =>
         /\ outcome = "grid"
         /\ result = [c \in Cells(shape) |-> 2]
         /\ log = C8_Events

C8_Witness ==
  /\ IsTestGrid /\ AllTrue /\ periodic /\ backtracking /\ hooks = Loggers
  /\ pc = "done"
  /\ outcome = "grid"
  /\ log = C8_Events

(* C9: the same run with check_feasible(wave) = (wave.sum() >= 20) ends    *)
(* with Contradiction.                                                     *)
C9_InfeasibleRunEndsInContradiction ==
  (/\ IsTestGrid /\ AllTrue /\ periodic /\ backtracking
   /\ hooks.checkFeasible = "atLeast" /\ feasMin = TestFeasMin
   /\ pc = "done") => outcome = "Contradiction"

(* C10: on every all-true W x H grid with the adjacency of the tests,      *)
(* periodic = false, no backtracking and no feasibility hook, run returns  *)
(* the checkerboard grid[x][y] = (x + y) mod 2.                            *)
C10_NonPeriodicRunReturnsCheckerboard ==
  (/\ shape[1] = TestN /\ adj = TestAdj /\ AllTrue
   /\ ~periodic /\ ~backtracking
   /\ hooks.checkFeasible = None
   /\ pc = "done") =>
    /\ outcome = "grid"
    /\ result = [c \in Cells(shape) |-> (c[1] + c[2]) % 2]

C10_TestGrid == <<<<0, 1, 0, 1>>, <<1, 0, 1, 0>>, <<0, 1, 0, 1>>>>

C10_Witness ==
  /\ IsTestGrid /\ AllTrue /\ ~periodic /\ ~backtracking /\ hooks = NoHooks
  /\ outcome = "grid"
  /\ result = [c \in Cells(shape) |-> C10_TestGrid[c[1] + 1][c[2] + 1]]

(* C11: when the caller supplies on_choice, every commit of the driver is  *)
(* preceded by its on_choice(p, x, y) event, in every frame.               *)
C11_EveryCommitIsAnnounced ==
  (hooks.onChoice = "onChoice" /\ pc = "commit") =>
    /\ Len(log) > 0
    /\ log[Len(log)] = <<"choice", Top.pattern, Top.i, Top.j>>

(* C12: when the caller supplies check_feasible, every frame holds it and  *)
(* goes past its top only on a wave the callable accepts.                  *)
C12_EveryFrameQueriesFeasibility ==
  hooks.checkFeasible = "atLeast" =>
    /\ pc = "enter" => Top.checkFeasible = "atLeast"
    /\ pc = "copy" => Sum(wave) >= feasMin

(* the frames that retried after forbidding their choice *)
Forbidders == {k \in 1 .. Len(stack) : stack[k].at = "handler"}

(* C13: a choice forbidden by a frame stays impossible in the wave of the  *)
(* retries that start from that frame's snapshot, and none of them commits *)
(* it again.                                                               *)
C13_ForbiddenChoiceNotRetried ==
  backtracking =>
    \A k \in Forbidders :
      /\ ~wave[stack[k].pattern, stack[k].i, stack[k].j]
      /\ \A l \in (k + 1) .. Len(stack) :
           <<stack[l].pattern, stack[l].i, stack[l].j>> #
             <<stack[k].pattern, stack[k].i, stack[k].j>>

(* a retry commits another pattern at the cell of the forbidden choice *)
C13_Witness ==
  /\ backtracking
  /\ pc = "commit"
  /\ \E k \in Forbidders :
       /\ stack[k].i = Top.i /\ stack[k].j = Top.j
       /\ stack[k].pattern # Top.pattern

(* C14: with backtracking = false no step logs a backtrack or turns a      *)
(* false entry of the wave true, and once a Contradiction is in a handler  *)
(* it only travels outwards: nothing is logged or changed in the wave, and *)
(* the run ends with Contradiction.                                        *)
C14_ContradictionSurfaces ==
  [][~backtracking =>
       /\ Len(log') > Len(log) => log'[Len(log')][1] = "choice"
       /\ \A e \in DOMAIN wave : wave'[e] => wave[e]
       /\ pc = "except" =>
            /\ pc' \in {"except", "done"}
            /\ wave' = wave
            /\ log' = log
            /\ pc' = "done" => outcome' = "Contradiction"]_vars

(* a Contradiction raised after a choice has reached the caller of run *)
C14_Witness ==
  /\ ~backtracking
  /\ outcome = "Contradiction"
  /\ Len(log) > 0

(* the cells of wv with more than one possible pattern *)
Unresolved(wv) == {c \in Cells(shape) : CountAt(wv, shape, c[1], c[2]) > 1}

(* row-major order of cells: lowest x, then lowest y *)
RowMajorBefore(c, d) == c[1] < d[1] \/ (c[1] = d[1] /\ c[2] < d[2])

(* C15: on a wave with an unresolved cell, lexicalLocationHeuristic        *)
(* returns an unresolved cell whose count is minimal among the unresolved  *)
(* cells, and no cell before it in row-major order is unresolved with the  *)
(* same count.                                                             *)
C15_LocationIsFirstMinimalUnresolved ==
  (pc = "located" /\ Unresolved(wave) # {}) =>
    LET loc == <<Top.i, Top.j>>
    IN  /\ loc \in Unresolved(wave)
        /\ \A c \in Unresolved(wave) :
             /\ CountAt(wave, shape, loc[1], loc[2]) <= CountAt(wave, shape, c[1], c[2])
             /\ CountAt(wave, shape, c[1], c[2]) = CountAt(wave, shape, loc[1], loc[2]) =>
                  ~RowMajorBefore(c, loc)

(* the heuristic passes over a resolved cell and an unresolved cell of     *)
(* larger count, and picks the first of two cells of minimal count         *)
C15_Witness ==
  /\ pc = "located"
  /\ \E c, d, e \in Cells(shape) :
       /\ CountAt(wave, shape, c[1], c[2]) = 1
       /\ d \in Unresolved(wave)
       /\ CountAt(wave, shape, d[1], d[2]) > CountAt(wave, shape, Top.i, Top.j)
       /\ RowMajorBefore(c, <<Top.i, Top.j>>)
       /\ RowMajorBefore(d, <<Top.i, Top.j>>)
       /\ e \in Unresolved(wave)
       /\ RowMajorBefore(<<Top.i, Top.j>>, e)
       /\ CountAt(wave, shape, e[1], e[2]) = CountAt(wave, shape, Top.i, Top.j)

(* C16: run tests for termination before it picks: the location heuristic *)
(* is consulted only on a wave with an unresolved cell, and every cell     *)
(* that run commits had more than one possible pattern when selected.      *)
C16_PicksOnlyUnresolvedCells ==
  /\ pc = "observe" => Unresolved(wave) # {}
  /\ pc = "commit" => <<Top.i, Top.j>> \in Unresolved(wave)

(* C17: the wave from which a frame retries after a backtrack is the wave *)
(* the frame was entered with, except for the entry of the failed choice,  *)
(* which was true at entry and is false in the retry.                      *)
C17_RetryStartsFromEntrySnapshot ==
  [][(pc = "except" /\ backtracking) =>
       \A e \in DOMAIN wave :
         IF e = <<Top.pattern, Top.i, Top.j>>
           THEN Top.entry[e] /\ ~wave'[e]
           ELSE wave'[e] = Top.entry[e]]_vars

(* a retry has just been started from a snapshot that differs from the     *)
(* wave the failed choice had left behind                                  *)
C17_Witness ==
  /\ backtracking
  /\ pc = "enter"
  /\ Len(stack) >= 2
  /\ stack[Len(stack) - 1].at = "handler"
  /\ Sum(wave) = Sum(stack[Len(stack) - 1].entry) - 1
  /\ ~wave[stack[Len(stack) - 1].pattern, stack[Len(stack) - 1].i, stack[Len(stack) - 1].j]

(* C18: the number of nested frames of run never exceeds the number of    *)
(* unresolved cells of the wave passed to the outermost call, and every    *)
(* commit strictly decreases the number of unresolved cells.               *)
C18_DepthBoundedByUnresolvedCells ==
  [][/\ Unresolved(input) # {} => Len(stack') <= Cardinality(Unresolved(input))
     /\ pc = "commit" =>
          Cardinality(Unresolved(wave')) < Cardinality(Unresolved(wave))]_vars

(* the wave of a full assignment g: one possible pattern per cell *)
AssignmentWave(g) ==
  [p \in Pats(shape), x \in Xs(shape), y \in Ys(shape) |-> g[<<x, y>>] = p]

(* the full assignments examined: all of them on grids of at most MaxCells *)
(* cells, the uniform ones on larger grids                                 *)
Assignments ==
  IF shape[2] * shape[3] <= MaxCells
    THEN [Cells(shape) -> Pats(shape)]
    ELSE {[c \in Cells(shape) |-> p] : p \in Pats(shape)}

(* the initial wave contains a full assignment that a sweep of propagate   *)
(* leaves unchanged                                                        *)
HasSolution ==
  \E g \in Assignments :
    /\ SubWave(AssignmentWave(g), input)
    /\ SweepWave(AssignmentWave(g), adj, shape, periodic) = AssignmentWave(g)

(* C19: with backtracking, the four cardinal directions and no feasibility *)
(* callable, a run whose initial wave contains a full assignment that is a *)
(* fixpoint of propagate returns a grid.                                   *)
C19_SolvableRunReturnsGrid ==
  (/\ backtracking
   /\ DOMAIN adj = Cardinals
   /\ hooks.checkFeasible = None
   /\ HasSolution
   /\ pc = "done") => outcome = "grid"

(* a solvable run has returned a grid after a backtrack *)
C19_Witness ==
  /\ backtracking
  /\ DOMAIN adj = Cardinals
  /\ hooks.checkFeasible = None
  /\ HasSolution
  /\ outcome = "grid"
  /\ \E k \in 1 .. Len(log) : log[k] = <<"backtrack">>

(* the three measures of C20: a sweep that does not end the loop clears an *)
(* entry, a forward recursion starts below the count of true entries the   *)
(* frame was entered with, and a retry starts one below the snapshot       *)
CountsDecrease ==
  /\ (pc = "sweep" /\ pc' = "sweep") => Sum(wave') < Sum(wave)
  /\ (pc = "test" /\ pc' = "enter") => Sum(wave') < Sum(Top.entry)
  /\ (pc = "except" /\ pc' = "enter") => Sum(wave') = Sum(Top.original) - 1

(* C20: every run eventually ends, returning a grid or raising             *)
(* Contradiction (the caller passing no feasibility callable), and every   *)
(* step of a loop, a recursion or a backtrack lowers its count of true     *)
(* entries.                                                                *)
C20_RunEndsWithGridOrContradiction ==
  /\ <>(/\ pc = "done"
        /\ hooks.checkFeasible = None => outcome \in {"grid", "Contradiction"})
  /\ [][CountsDecrease]_vars

====
